---------------------------- MODULE Spec2Model ----------------------------
(***************************************************************************)
(* GoVector (govec/govec.go): a vector-clock logger.  Every process owns   *)
(* one GoLog; the threads of the process call LogLocalEventWithPriority,   *)
(* PrepareSendWithPriority and UnpackReceiveWithPriority (which take       *)
(* gv.mutex) and Flush, EnableBufferedWrites, DisableBufferedWrites and    *)
(* GetCurrentVC (which do not).  A call is modelled statement by statement *)
(* wherever it touches gv.output, gv.buffered or the log file, the fields  *)
(* the unlocked methods touch too.                                         *)
(***************************************************************************)
EXTENDS Integers, Sequences, FiniteSets, TLC

VARIABLES
    currentVC,   \* [Procs -> clock]        gv.currentVC
    output,      \* [Procs -> Seq(record)]  gv.output, the pending text
    buffered,    \* [Procs -> BOOLEAN]      gv.buffered
    sink,        \* [Procs -> Seq(record)]  the contents of gv.logfile
    mutex,       \* [Procs -> thread or NoThread]  the holder of gv.mutex
    cfg,         \* the GoLogConfig every logger was built with
    th,          \* [Threads -> frame]      each thread's call frame
    net,         \* the envelopes PrepareSend has returned so far
    events,      \* [Procs -> Nat]  calls that passed the priority check
    calls,       \* number of calls started so far
    limit,       \* number of calls the run may start
    hist         \* [Procs -> the records handed to logThis, in the order the
                 \*  calls took the lock, and whether a sink write has failed]

vars == <<currentVC, output, buffered, sink, mutex, cfg, th, net, events, calls,
          limit, hist>>

-----------------------------------------------------------------------------
(* Bounds of the model *)

MaxCalls == 3

(* LogPriority, govec.go:50-56 *)
DEBUG == 0
INFO == 1
WARNING == 2
ERROR == 3
FATAL == 4

Procs == {"P1", "P2"}
PidOrder == <<"P1", "P2">>
Threads == {"a", "b", "c"}
Proc(t) == IF t = "c" THEN "P2" ELSE "P1"
NoThread == "none"

Priorities == {DEBUG, INFO}
Unsupported == "chan"
Payloads == {"hello", Unsupported}

LoggingKinds == {"local", "send", "recv"}

-----------------------------------------------------------------------------
(* vclock.VClock: a map from process id to counter *)

EmptyVC == [k \in {} |-> 0]

FindTicks(vc, id) == IF id \in DOMAIN vc THEN vc[id] ELSE 0

VCNew == EmptyVC

VCTick(vc, id) ==
    [k \in DOMAIN vc \cup {id} |->
        IF k = id THEN FindTicks(vc, id) + 1 ELSE vc[k]]

VCMerge(vc, other) ==
    [k \in DOMAIN vc \cup {j \in DOMAIN other : FindTicks(vc, j) < other[j]} |->
        IF k \in DOMAIN other /\ FindTicks(vc, k) < other[k]
        THEN other[k] ELSE vc[k]]

VCGetMap(vc) == vc

(* ReturnVCString: the entries in key order *)
RECURSIVE VCPairs(_, _)
VCPairs(vc, i) ==
    IF i > Len(PidOrder) THEN <<>>
    ELSE (IF PidOrder[i] \in DOMAIN vc
          THEN << <<PidOrder[i], vc[PidOrder[i]]>> >> ELSE <<>>)
         \o VCPairs(vc, i + 1)

ReturnVCString(vc) == VCPairs(vc, 1)

-----------------------------------------------------------------------------
(* The wire format.  A byte string is a sequence of msgpack values. *)

Str(s) == [k |-> "str", v |-> s]
Uint(n) == [k |-> "uint", v |-> n]
MapLen(n) == [k |-> "maplen", v |-> n]

(* the orders in which `range d.VcMap` may visit the keys *)
KeyOrders(m) ==
    {o \in [1..Cardinality(DOMAIN m) -> DOMAIN m] :
        \A i, j \in DOMAIN o : i # j => o[i] # o[j]}

RECURSIVE EncodePairs(_, _, _)
EncodePairs(m, o, i) ==
    IF i > Len(o) THEN <<>>
    ELSE <<Str(o[i]), Uint(m[o[i]])>> \o EncodePairs(m, o, i + 1)

(* ClockPayload.EncodeMsgpack: Pid, Payload, map length, then the pairs.
   enc.Encode(d.Payload) fails on a value msgpack cannot represent. *)
EncodeMsgpack(d, o) ==
    IF d.Payload = Unsupported
    THEN [err |-> TRUE, bytes |-> <<>>]
    ELSE [err |-> FALSE,
          bytes |-> <<Str(d.Pid), Str(d.Payload), MapLen(Cardinality(DOMAIN d.VcMap))>>
                    \o EncodePairs(d.VcMap, o, 1)]

NilPayload == [Pid |-> "", Payload |-> "", VcMap |-> EmptyVC]

(* the pair loop of DecodeMsgpack, lines 194-206 *)
RECURSIVE DecodePairs(_, _, _, _)
DecodePairs(buf, pos, n, acc) ==
    IF n = 0 THEN [err |-> FALSE, pos |-> pos, m |-> acc]
    ELSE IF pos + 1 > Len(buf) \/ buf[pos].k # "str" \/ buf[pos + 1].k # "uint"
         THEN [err |-> TRUE, pos |-> pos, m |-> acc]
         ELSE DecodePairs(buf, pos + 2, n - 1,
                  [k \in DOMAIN acc \cup {buf[pos].v} |->
                      IF k = buf[pos].v THEN buf[pos + 1].v ELSE acc[k]])

IsStr(buf, pos) == pos <= Len(buf) /\ buf[pos].k = "str"

(* dec.Decode(&d.Pid, &d.Payload, &d.VcMap) at line 207: three more values
   are read from the stream, each stored as soon as it is decoded *)
DecodeTail(buf, pos, e) ==
    IF ~IsStr(buf, pos) THEN [err |-> TRUE, e |-> e]
    ELSE IF ~IsStr(buf, pos + 1)
         THEN [err |-> TRUE, e |-> [e EXCEPT !.Pid = buf[pos].v]]
         ELSE LET e2 == [e EXCEPT !.Pid = buf[pos].v, !.Payload = buf[pos + 1].v]
              IN  IF pos + 2 > Len(buf) \/ buf[pos + 2].k # "maplen"
                  THEN [err |-> TRUE, e |-> e2]
                  ELSE [err |-> DecodePairs(buf, pos + 3, buf[pos + 2].v, EmptyVC).err,
                        e |-> e2]

(* ClockPayload.DecodeMsgpack, lines 173-214: e is the value decoded into *)
DecodeMsgpack(buf, e) ==
    IF ~IsStr(buf, 1) THEN [err |-> TRUE, e |-> e]
    ELSE LET e1 == [e EXCEPT !.Pid = buf[1].v] IN
    IF ~IsStr(buf, 2) THEN [err |-> TRUE, e |-> e1]
    ELSE LET e2 == [e1 EXCEPT !.Payload = buf[2].v] IN
    IF 3 > Len(buf) \/ buf[3].k # "maplen" THEN [err |-> TRUE, e |-> e2]
    ELSE LET r == DecodePairs(buf, 4, buf[3].v, EmptyVC) IN
    IF r.err THEN [err |-> TRUE, e |-> e2]
    ELSE LET tl == DecodeTail(buf, r.pos, e2) IN
         [err |-> tl.err, e |-> [tl.e EXCEPT !.VcMap = r.m]]

(* A strategy pair passed in GoLogConfig (gob, json, ...): it writes the
   ClockPayload as one value and reads it back, and rejects what it cannot
   represent. *)
Env(d) == [k |-> "env", v |-> d]

CustomEncoder(d) ==
    IF d.Payload = Unsupported
    THEN [err |-> TRUE, bytes |-> <<>>]
    ELSE [err |-> FALSE, bytes |-> <<Env(d)>>]

CustomDecoder(buf, e) ==
    IF Len(buf) = 1 /\ buf[1].k = "env"
    THEN [err |-> FALSE, e |-> buf[1].v]
    ELSE [err |-> TRUE, e |-> e]

Strategies == {"msgpack", "custom"}

(* gv.encodingStrategy(&d): the bytes it may return *)
encodingStrategy(s, d) ==
    IF s = "msgpack"
    THEN {EncodeMsgpack(d, o) : o \in KeyOrders(d.VcMap)}
    ELSE {CustomEncoder(d)}

(* gv.decodingStrategy(buf, &e) *)
decodingStrategy(s, buf, e) ==
    IF s = "msgpack" THEN DecodeMsgpack(buf, e) ELSE CustomDecoder(buf, e)

-----------------------------------------------------------------------------
(* The logger *)

(* the text block logThis builds, lines 419-429 *)
LogRecord(Message, ProcessID, VCString) ==
    [pid |-> ProcessID, vc |-> VCString, msg |-> Message]

(* the test written one level too low *)
Passes_OffByOne(Priority, threshold) == Priority + 1 >= threshold

(* the test `Priority >= gv.priority`, lines 476, 500, 558 *)
Passes(Priority, threshold) == Priority >= threshold

(* the tick applied twice *)
tickClock_Twice(vc, pid) == VCTick(VCTick(vc, pid), pid)

(* the tick that advances every entry of the clock *)
tickClock_All(vc, pid) == [k \in DOMAIN vc \cup {pid} |-> FindTicks(vc, k) + 1]

(* tickClock, lines 453-459 *)
tickClock(vc, pid) == VCTick(vc, pid)

(* the receive that ticks and forgets the incoming clock *)
mergeIncomingClock_NoMerge(vc, pid, e) == VCTick(vc, pid)

(* the receive that merges and forgets its own tick *)
mergeIncomingClock_NoTick(vc, pid, e) == VCMerge(vc, e.VcMap)

(* the receive that also counts an event for the sender *)
mergeIncomingClock_TickSender(vc, pid, e) ==
    VCTick(VCMerge(VCTick(vc, pid), e.VcMap), e.Pid)

(* the receive that takes the incoming entries as they come *)
mergeIncomingClock_Overwrite(vc, pid, e) ==
    [k \in DOMAIN VCTick(vc, pid) \cup DOMAIN e.VcMap |->
        IF k \in DOMAIN e.VcMap THEN e.VcMap[k] ELSE VCTick(vc, pid)[k]]

(* mergeIncomingClock, lines 537-539: tick, then merge e.VcMap *)
mergeIncomingClock(vc, pid, e) == VCMerge(tickClock(vc, pid), e.VcMap)

(* the envelope that carries the clock as it was before the tick *)
SendPayload_BeforeTick(vc, pid, buf) ==
    [Pid |-> pid, VcMap |-> [vc EXCEPT ![pid] = @ - 1], Payload |-> buf]

(* the ClockPayload PrepareSendWithPriority builds, line 505 *)
SendPayload(vc, pid, buf) == [Pid |-> pid, VcMap |-> VCGetMap(vc), Payload |-> buf]

(* where a logging call goes on after logWriteWrapper *)
AfterLog(kind) == IF kind = "send" THEN "encode" ELSE "unlock"

NoMsg == [bytes |-> <<>>, S |-> EmptyVC, from |-> ""]

(* a byte string no PrepareSend produced: an envelope cut off in its map *)
Malformed ==
    {[bytes |-> <<Str("P1"), Str("hello"), MapLen(1), Str("P1")>>,
      S |-> EmptyVC, from |-> ""]}

Frame0 ==
    [pc |-> "idle", kind |-> "none", Priority |-> INFO, passes |-> FALSE,
     payload |-> "", m |-> NoMsg,
     pre |-> EmptyVC, post |-> EmptyVC,
     rec |-> LogRecord("", "", <<>>), logged |-> FALSE, tmp |-> <<>>,
     complete |-> TRUE, logSuccess |-> TRUE,
     d |-> NilPayload, e |-> NilPayload, err |-> FALSE,
     encodedBytes |-> <<>>, vc |-> EmptyVC]

(* InitGoVector, lines 264-303: the clock is ticked once and the record
   "Initialization Complete" goes through logThis *)
InitRecord(p) == LogRecord("init", p, ReturnVCString(tickClock(VCNew, p)))

Configured(strategies, n) ==
    /\ limit = n
    /\ hist = [p \in Procs |-> [recs |-> <<InitRecord(p)>>, failed |-> FALSE]]
    /\ cfg \in [priority : {INFO}, logging : BOOLEAN, buffered : BOOLEAN,
                strategy : strategies]
    /\ currentVC = [p \in Procs |-> tickClock(VCNew, p)]
    /\ buffered = [p \in Procs |-> cfg.buffered]
    /\ output = [p \in Procs |-> IF cfg.buffered THEN <<InitRecord(p)>> ELSE <<>>]
    /\ sink = [p \in Procs |-> IF cfg.buffered THEN <<>> ELSE <<InitRecord(p)>>]
    /\ mutex = [p \in Procs |-> NoThread]
    /\ th = [t \in Threads |-> Frame0]
    /\ net = {}
    /\ events = [p \in Procs |-> 0]
    /\ calls = 0

(* GetDefaultConfig leaves the strategies nil: msgpack, lines 285-286 *)
Init == Configured({"msgpack"}, MaxCalls)

(* either the default codec or a pair of the application's, lines 287-288 *)
InitSeq == Configured(Strategies, MaxCalls)

CanCall(t) == th[t].pc = "idle" /\ calls < limit

(* the frame of a logging call once it holds the lock, has tested the
   priority and has changed the clock to vc *)
Entered(t, kind, Priority, vc, f) ==
    LET p == Proc(t)
        passes == Passes(Priority, cfg.priority)
        logs == passes /\ cfg.logging
    IN [f EXCEPT
          !.kind = kind, !.Priority = Priority, !.passes = passes,
          !.pre = currentVC[p],
          !.logged = logs,
          !.rec = IF logs THEN LogRecord(kind, p, ReturnVCString(vc)) ELSE f.rec,
          \* logWriteWrapper returns its zero value when gv.logging is false
          !.logSuccess = ~(passes /\ ~cfg.logging),
          !.pc = IF ~passes THEN (IF kind = "local" THEN "unlock" ELSE "idle")
                 ELSE IF logs THEN "log_rd" ELSE AfterLog(kind)]

(* the record of a call joins the history when the call takes the lock *)
Noted(h, f) == IF f.logged THEN [h EXCEPT !.recs = Append(@, f.rec)] ELSE h

(* LogLocalEventWithPriority, lines 473-480 *)
LogLocalEventWithPriority(t, Priority) ==
    LET p == Proc(t)
        vc == IF Passes(Priority, cfg.priority)
              THEN tickClock(currentVC[p], p) ELSE currentVC[p]
    IN /\ CanCall(t)
       /\ mutex[p] = NoThread
       /\ mutex' = [mutex EXCEPT ![p] = t]
       /\ currentVC' = [currentVC EXCEPT ![p] = vc]
       /\ th' = [th EXCEPT ![t] = Entered(t, "local", Priority, vc, Frame0)]
       /\ events' = [events EXCEPT ![p] = @ + (IF Passes(Priority, cfg.priority) THEN 1 ELSE 0)]
       /\ calls' = calls + 1
       /\ hist' = [hist EXCEPT ![p] = Noted(@, th'[t])]
       /\ UNCHANGED <<output, buffered, sink, cfg, net, limit>>

(* PrepareSendWithPriority, lines 496-503; a suppressed call returns at
   line 517 without reaching the Unlock of line 515 *)
PrepareSendWithPriority(t, buf, Priority) ==
    LET p == Proc(t)
        vc == IF Passes(Priority, cfg.priority)
              THEN tickClock(currentVC[p], p) ELSE currentVC[p]
    IN /\ CanCall(t)
       /\ mutex[p] = NoThread
       /\ mutex' = [mutex EXCEPT ![p] = t]
       /\ currentVC' = [currentVC EXCEPT ![p] = vc]
       /\ th' = [th EXCEPT ![t] =
                    Entered(t, "send", Priority, vc, [Frame0 EXCEPT !.payload = buf])]
       /\ events' = [events EXCEPT ![p] = @ + (IF Passes(Priority, cfg.priority) THEN 1 ELSE 0)]
       /\ calls' = calls + 1
       /\ hist' = [hist EXCEPT ![p] = Noted(@, th'[t])]
       /\ UNCHANGED <<output, buffered, sink, cfg, net, limit>>

(* PrepareSendWithPriority, lines 505-512: snapshot and encode *)
SendEncode(t) ==
    LET p == Proc(t)
        d == SendPayload(currentVC[p], p, th[t].payload)
    IN /\ th[t].pc = "encode"
       /\ \E r \in encodingStrategy(cfg.strategy, d) :
             th' = [th EXCEPT ![t].d = d, ![t].encodedBytes = r.bytes,
                              ![t].err = r.err, ![t].pc = "unlock"]
       /\ UNCHANGED <<currentVC, output, buffered, sink, mutex, cfg, net, events, calls, limit, hist>>

(* UnpackReceiveWithPriority, lines 554-569, with mergeIncomingClock up to
   its call of logWriteWrapper; a suppressed call returns without Unlock *)
UnpackReceiveWithPriority(t, m, Priority) ==
    LET p == Proc(t)
        passes == Passes(Priority, cfg.priority)
        r == decodingStrategy(cfg.strategy, m.bytes, NilPayload)
        vc == IF passes THEN mergeIncomingClock(currentVC[p], p, r.e) ELSE currentVC[p]
    IN /\ CanCall(t)
       /\ mutex[p] = NoThread
       /\ mutex' = [mutex EXCEPT ![p] = t]
       /\ currentVC' = [currentVC EXCEPT ![p] = vc]
       /\ th' = [th EXCEPT ![t] =
                    Entered(t, "recv", Priority, vc,
                            [Frame0 EXCEPT !.m = m,
                                           !.e = IF passes THEN r.e ELSE NilPayload,
                                           !.err = passes /\ r.err])]
       /\ events' = [events EXCEPT ![p] = @ + (IF passes THEN 1 ELSE 0)]
       /\ calls' = calls + 1
       /\ hist' = [hist EXCEPT ![p] = Noted(@, th'[t])]
       /\ UNCHANGED <<output, buffered, sink, cfg, net, limit>>

(* logThis, line 431, `gv.output += output`: the load ... *)
logThisRead(t) ==
    /\ th[t].pc = "log_rd"
    /\ th' = [th EXCEPT ![t].tmp = output[Proc(t)], ![t].pc = "log_wr"]
    /\ UNCHANGED <<currentVC, output, buffered, sink, mutex, cfg, net, events, calls, limit, hist>>

(* ... and the store *)
logThisWrite(t) ==
    /\ th[t].pc = "log_wr"
    /\ output' = [output EXCEPT ![Proc(t)] = Append(th[t].tmp, th[t].rec)]
    /\ th' = [th EXCEPT ![t].tmp = <<>>, ![t].pc = "log_chk"]
    /\ UNCHANGED <<currentVC, buffered, sink, mutex, cfg, net, events, calls, limit, hist>>

(* a call that gives up when its record could not be written *)
Returned_AbortOnFailure(f, complete) ==
    IF f.kind \in LoggingKinds
    THEN [f EXCEPT !.complete = complete,
                   !.logSuccess = IF f.kind = "local" THEN complete ELSE f.logSuccess,
                   !.pc = IF complete THEN AfterLog(f.kind) ELSE "unlock"]
    ELSE [f EXCEPT !.complete = complete, !.pc = "idle"]

(* what a call does when logThis or Flush has returned `complete` *)
Returned(f, complete) ==
    IF f.kind \in LoggingKinds
    THEN [f EXCEPT !.complete = complete,
                   !.logSuccess = IF f.kind = "local" THEN complete ELSE f.logSuccess,
                   !.pc = AfterLog(f.kind)]
    ELSE [f EXCEPT !.complete = complete, !.pc = "idle"]

(* a logThis that writes through whatever the mode *)
WritesThrough_Always(isBuffered) == TRUE

(* the test `!gv.buffered`, line 432 *)
WritesThrough(isBuffered) == ~isBuffered

(* logThis, lines 432-434: `if !gv.buffered { complete = gv.Flush() }` *)
logThisCheck(t) ==
    /\ th[t].pc = "log_chk"
    /\ th' = [th EXCEPT ![t] = IF WritesThrough(buffered[Proc(t)])
                               THEN [th[t] EXCEPT !.pc = "flush_wr"]
                               ELSE Returned(th[t], TRUE)]
    /\ UNCHANGED <<currentVC, output, buffered, sink, mutex, cfg, net, events, calls, limit, hist>>

(* Flush, lines 388-397: open the file and write gv.output; either may fail *)
FlushWrite(t) ==
    /\ th[t].pc = "flush_wr"
    /\ \E ok \in BOOLEAN :
          /\ sink' = [sink EXCEPT ![Proc(t)] = IF ok THEN @ \o output[Proc(t)] ELSE @]
          /\ th' = [th EXCEPT ![t].complete = ok, ![t].pc = "flush_clr"]
          /\ hist' = [hist EXCEPT ![Proc(t)].failed = @ \/ ~ok]
    /\ UNCHANGED <<currentVC, output, buffered, mutex, cfg, net, events, calls, limit>>

(* a Flush that keeps the text it could not write *)
Cleared_OnSuccess(out, complete) == IF complete THEN <<>> ELSE out

(* what Flush leaves in gv.output, line 399, whatever the write did *)
Cleared(out, complete) == <<>>

(* Flush, lines 399-400: `gv.output = ""` and return *)
FlushClear(t) ==
    /\ th[t].pc = "flush_clr"
    /\ output' = [output EXCEPT ![Proc(t)] = Cleared(@, th[t].complete)]
    /\ th' = [th EXCEPT ![t] = Returned(th[t], th[t].complete)]
    /\ UNCHANGED <<currentVC, buffered, sink, mutex, cfg, net, events, calls, limit, hist>>

(* gv.mutex.Unlock() and the return, lines 481-482, 515-517, 570-573 *)
Unlock(t) ==
    LET p == Proc(t) IN
    /\ th[t].pc = "unlock"
    /\ mutex' = [mutex EXCEPT ![p] = NoThread]
    /\ th' = [th EXCEPT ![t].pc = "idle", ![t].post = currentVC[p]]
    /\ net' = IF th[t].kind = "send" /\ ~th[t].err
              THEN net \cup {[bytes |-> th[t].encodedBytes, S |-> th[t].d.VcMap, from |-> p]}
              ELSE net
    /\ UNCHANGED <<currentVC, output, buffered, sink, cfg, events, calls, limit, hist>>

(* Flush called by the application, line 387 *)
Flush(t) ==
    /\ CanCall(t)
    /\ th' = [th EXCEPT ![t] = [Frame0 EXCEPT !.kind = "flush", !.pc = "flush_wr"]]
    /\ calls' = calls + 1
    /\ UNCHANGED <<currentVC, output, buffered, sink, mutex, cfg, net, events, limit, hist>>

(* EnableBufferedWrites, lines 369-371 *)
EnableBufferedWrites(t) ==
    /\ CanCall(t)
    /\ buffered' = [buffered EXCEPT ![Proc(t)] = TRUE]
    /\ th' = [th EXCEPT ![t] = [Frame0 EXCEPT !.kind = "enable"]]
    /\ calls' = calls + 1
    /\ UNCHANGED <<currentVC, output, sink, mutex, cfg, net, events, limit, hist>>

(* DisableBufferedWrites, line 377 *)
DisableBufferedWrites(t) ==
    /\ CanCall(t)
    /\ buffered' = [buffered EXCEPT ![Proc(t)] = FALSE]
    /\ th' = [th EXCEPT ![t] = [Frame0 EXCEPT !.kind = "disable", !.pc = "dis_chk"]]
    /\ calls' = calls + 1
    /\ UNCHANGED <<currentVC, output, sink, mutex, cfg, net, events, limit, hist>>

(* DisableBufferedWrites, lines 378-380 *)
DisableCheck(t) ==
    /\ th[t].pc = "dis_chk"
    /\ th' = [th EXCEPT ![t].pc = IF output[Proc(t)] # <<>> THEN "flush_wr" ELSE "idle"]
    /\ UNCHANGED <<currentVC, output, buffered, sink, mutex, cfg, net, events, calls, limit, hist>>

(* GetCurrentVC, lines 346-348 *)
GetCurrentVC(t) ==
    /\ CanCall(t)
    /\ th' = [th EXCEPT ![t] = [Frame0 EXCEPT !.kind = "getvc", !.vc = currentVC[Proc(t)]]]
    /\ calls' = calls + 1
    /\ UNCHANGED <<currentVC, output, buffered, sink, mutex, cfg, net, events, limit, hist>>

(* What the VClock GetCurrentVC returned holds now.  `return gv.currentVC`
   (line 347) hands out the map itself, the one tickClock and Merge change
   in place (lines 458, 539: no assignment to gv.currentVC follows them). *)
Held(t) == currentVC[Proc(t)]

Step(t) ==
    \/ \E pr \in Priorities : LogLocalEventWithPriority(t, pr)
    \/ \E pr \in Priorities, buf \in Payloads : PrepareSendWithPriority(t, buf, pr)
    \/ SendEncode(t)
    \/ logThisRead(t)
    \/ logThisWrite(t)
    \/ logThisCheck(t)
    \/ FlushWrite(t)
    \/ FlushClear(t)
    \/ Unlock(t)
    \/ Flush(t)
    \/ EnableBufferedWrites(t)
    \/ DisableBufferedWrites(t)
    \/ DisableCheck(t)
    \/ GetCurrentVC(t)

(* One logger, P1, called by two threads at once.  What it receives was
   sent by itself or by a peer P2 whose clock stands at {P2: 2}. *)
Peer == SendPayload(tickClock(tickClock(VCNew, "P2"), "P2"), "P2", "hello")

Remote ==
    {[bytes |-> r.bytes, S |-> Peer.VcMap, from |-> Peer.Pid] :
        r \in encodingStrategy(cfg.strategy, Peer)}

Next ==
    \E t \in {"a", "b"} :
        \/ Step(t)
        \/ \E pr \in Priorities, m \in net \cup Malformed \cup Remote :
               UnpackReceiveWithPriority(t, m, pr)

Spec == Init /\ [][Next]_vars

(* Two loggers, P1 and P2, exchanging what they send; one call at a time:
   a call is started only when none is in progress. *)
Alone(t) == \A u \in Threads \ {t} : th[u].pc = "idle"

NextSeq ==
    \E t \in {"a", "c"} :
        \/ \E pr \in Priorities : Alone(t) /\ LogLocalEventWithPriority(t, pr)
        \/ \E pr \in Priorities, buf \in Payloads :
               Alone(t) /\ PrepareSendWithPriority(t, buf, pr)
        \/ \E pr \in Priorities, m \in net \cup Malformed :
               Alone(t) /\ UnpackReceiveWithPriority(t, m, pr)
        \/ Alone(t) /\ SendEncode(t)
        \/ Alone(t) /\ logThisRead(t)
        \/ Alone(t) /\ logThisWrite(t)
        \/ Alone(t) /\ logThisCheck(t)
        \/ Alone(t) /\ FlushWrite(t)
        \/ Alone(t) /\ FlushClear(t)
        \/ Alone(t) /\ Unlock(t)
        \/ Alone(t) /\ Flush(t)
        \/ Alone(t) /\ EnableBufferedWrites(t)
        \/ Alone(t) /\ DisableBufferedWrites(t)
        \/ Alone(t) /\ DisableCheck(t)
        \/ Alone(t) /\ GetCurrentVC(t)

SpecSeq == InitSeq /\ [][NextSeq]_vars

(* The same two loggers, logging to their files unbuffered (the default
   configuration but for the codec), making logging calls only, sending
   payloads the codec can encode and receiving nothing but what one of
   them has sent. *)
MaxNetCalls == 4

InitNet == Configured(Strategies, MaxNetCalls) /\ cfg.logging /\ ~cfg.buffered

NextNet ==
    \E t \in {"a", "c"} :
        \/ \E pr \in Priorities : Alone(t) /\ LogLocalEventWithPriority(t, pr)
        \/ \E pr \in Priorities, buf \in Payloads \ {Unsupported} :
               Alone(t) /\ PrepareSendWithPriority(t, buf, pr)
        \/ \E pr \in Priorities, m \in net :
               Alone(t) /\ UnpackReceiveWithPriority(t, m, pr)
        \/ Alone(t) /\ SendEncode(t)
        \/ Alone(t) /\ logThisRead(t)
        \/ Alone(t) /\ logThisWrite(t)
        \/ Alone(t) /\ logThisCheck(t)
        \/ Alone(t) /\ FlushWrite(t)
        \/ Alone(t) /\ FlushClear(t)
        \/ Alone(t) /\ Unlock(t)

SpecNet == InitNet /\ [][NextNet]_vars

-----------------------------------------------------------------------------
(* Properties *)

Own(t) == Proc(t)

(* thread t is back from a call of the given kind *)
Back(t, kind) == th[t].pc = "idle" /\ th[t].kind = kind

(* the call of thread t was let through by the priority filter *)
Recorded(t) == th[t].Priority >= cfg.priority

(* C1: every call to LocalEvent, Send or Receive returns the logger to
   Idle: whether recorded or suppressed, a thread that is back from its call
   no longer holds the exclusive lock, so a later call can take it. *)
C1_LockFreeOnReturn ==
    \A t \in Threads : th[t].pc = "idle" => mutex[Own(t)] # t

(* C2: a step of a LocalEvent, Send or Receive whose priority is strictly
   below the threshold changes neither the clock, nor the pending buffer,
   nor the sink, and a suppressed Send holds no bytes to return. *)
C2_SuppressedChangesNothing ==
    [][\A t \in Threads :
          (th'[t] # th[t] /\ th'[t].kind \in LoggingKinds
              /\ th'[t].Priority < cfg.priority)
          => /\ currentVC'[Own(t)] = currentVC[Own(t)]
             /\ output'[Own(t)] = output[Own(t)]
             /\ sink'[Own(t)] = sink[Own(t)]
             /\ th'[t].encodedBytes = <<>>]_vars

(* a suppressed Send has returned on a logger that has logged events *)
C2_Witness ==
    \E t \in Threads :
        /\ Back(t, "send") /\ th[t].Priority < cfg.priority
        /\ currentVC[Own(t)][Own(t)] >= 2
        /\ sink[Own(t)] # <<>>

(* C3: a Send whose payload the encode strategy rejects leaves the clock
   at its value before the call. *)
C3_EncodeErrorKeepsClock ==
    \A t \in Threads :
        (Back(t, "send") /\ Recorded(t) /\ th[t].err) => th[t].post = th[t].pre

(* C4: a Receive whose bytes the decode strategy fails on leaves the clock
   untouched and logs no record. *)
C4_DecodeErrorKeepsClock ==
    \A t \in Threads :
        (Back(t, "recv") /\ Recorded(t) /\ th[t].err)
        => th[t].post = th[t].pre /\ ~th[t].logged

(* C5: causality: after a Receive that was not suppressed, the receiver's
   clock M dominates the snapshot S the sender put in the envelope:
   M[k] >= S[k] for every key k of S. *)
C5_Causality ==
    \A t \in Threads :
        (Back(t, "recv") /\ Recorded(t))
        => \A k \in DOMAIN th[t].m.S :
              k \in DOMAIN th[t].post /\ th[t].post[k] >= th[t].m.S[k]

(* a process with earlier events has received an envelope of another one *)
C5_Witness ==
    \E t \in Threads :
        /\ Back(t, "recv") /\ Recorded(t)
        /\ th[t].m.from \notin {"", Own(t)}
        /\ th[t].m.S[th[t].m.from] >= 2
        /\ th[t].pre[Own(t)] >= 2

Ticks(vc, k) == IF k \in DOMAIN vc THEN vc[k] ELSE 0

Max(x, y) == IF x >= y THEN x ELSE y

(* C6: a Receive that was not suppressed, of an envelope with snapshot S on
   a clock C, leaves the causal join: the own counter of C plus one, then
   the maximum with S key by key; keys only in C keep their value; and the
   record logged carries that clock. *)
C6_ReceiveIsJoin ==
    \A t \in Threads :
        (Back(t, "recv") /\ Recorded(t) /\ th[t].m.from # "")
        => LET C == th[t].pre
               S == th[t].m.S
               ticked(k) == Ticks(C, k) + (IF k = Own(t) THEN 1 ELSE 0)
           IN /\ th[t].post =
                    [k \in DOMAIN C \cup {Own(t)} \cup DOMAIN S |->
                        Max(ticked(k), Ticks(S, k))]
              /\ th[t].logged => th[t].rec.vc = ReturnVCString(th[t].post)

(* the example: clock {P2:1} receives {P1:2} without error, gives {P1:2, P2:2} *)
C6_Witness ==
    \E t \in Threads :
        /\ Back(t, "recv") /\ Recorded(t) /\ ~th[t].err /\ th[t].logged
        /\ Own(t) = "P2"
        /\ th[t].pre = [k \in {"P2"} |-> 1]
        /\ th[t].m.S = [k \in {"P1"} |-> 2]
        /\ th[t].post = [k \in {"P1", "P2"} |-> 2]

(* C7: tick-then-snapshot: the envelope of a Send that was not suppressed
   names the logger's pid and carries the clock right after this send's
   tick (own counter one above the value before the call, the rest as it
   was), the clock the send's record carries; the bytes returned decode to
   that pid and clock. *)
C7_TickThenSnapshot ==
    \A t \in Threads :
        (th[t].kind = "send" /\ Recorded(t) /\ th[t].pc \in {"unlock", "idle"})
        => LET C == th[t].pre
               snap == [k \in DOMAIN C \cup {Own(t)} |->
                           IF k = Own(t) THEN Ticks(C, k) + 1 ELSE C[k]]
               back == decodingStrategy(cfg.strategy, th[t].encodedBytes, NilPayload).e
           IN /\ th[t].d.Pid = Own(t)
              /\ th[t].d.VcMap = snap
              /\ th[t].logged => th[t].rec.vc = ReturnVCString(snap)
              /\ ~th[t].err => back.Pid = Own(t) /\ back.VcMap = snap

(* a Send is back with its envelope while another thread of the process is
   inside a call, on a clock that already holds a peer's entry *)
C7_Witness ==
    \E t, u \in Threads :
        /\ t # u /\ Own(t) = Own(u)
        /\ Back(t, "send") /\ Recorded(t) /\ ~th[t].err /\ th[t].logged
        /\ "P2" \in DOMAIN th[t].pre
        /\ th[u].pc # "idle"

(* C8: gv.output, gv.buffered and the clock are read and written only by a
   thread that holds the logger's lock. *)
C8_OnlyUnderLock ==
    \A t \in Threads :
        th[t].pc \in {"log_rd", "log_wr", "log_chk", "flush_wr", "flush_clr", "dis_chk"}
        => mutex[Own(t)] = t

(* C9: the own counter counts the events: {pid: 1} after initialization,
   and once every call on the logger has returned, 1 + the number of calls
   that were not suppressed. *)
C9_OwnCounterCountsEvents ==
    \A p \in Procs :
        /\ events[p] = 0 => currentVC[p] = [k \in {p} |-> 1]
        /\ (\A t \in Threads : Own(t) = p => th[t].pc = "idle")
           => currentVC[p][p] = 1 + events[p]

(* two threads of one logger are back from recorded calls, three in all *)
C9_Witness ==
    /\ events["P1"] = 3
    /\ \A t \in {"a", "b"} : th[t].pc = "idle" /\ th[t].kind \in LoggingKinds /\ Recorded(t)

(* C10: with buffered mode off, the pending buffer is empty right after a
   logging call has returned. *)
C10_UnbufferedLeavesNothing ==
    \A t \in Threads :
        (th[t].pc = "idle" /\ th[t].kind \in LoggingKinds /\ ~buffered[Own(t)])
        => output[Own(t)] = <<>>

(* a logger built buffered, since switched to immediate writes, is back
   from a LocalEvent whose write to the sink failed *)
C10_Witness ==
    \E t \in Threads :
        /\ Back(t, "local") /\ Recorded(t) /\ th[t].logged /\ ~th[t].complete
        /\ cfg.buffered /\ ~buffered[Own(t)]

(* the call of thread t handed a record to the sink and the write failed *)
WriteFailed(t) ==
    th[t].kind \in LoggingKinds /\ Recorded(t) /\ th[t].logged /\ ~th[t].complete

(* the clock a recorded call of thread t must leave: the own counter one up
   and, for a Receive, the maximum with the clock it decoded *)
Due(t) ==
    LET C == th[t].pre
        S == IF th[t].kind = "recv" THEN th[t].e.VcMap ELSE EmptyVC
    IN [k \in DOMAIN C \cup {Own(t)} \cup DOMAIN S |->
           Max(Ticks(C, k) + (IF k = Own(t) THEN 1 ELSE 0), Ticks(S, k))]

(* C11: a sink failure does not touch the logical clock: a LocalEvent, Send
   or Receive whose write failed returns with the tick (and the merge)
   applied as if the write had succeeded, and such a Send still returns the
   encoded envelope of its payload. *)
C11_SinkFailureKeepsEvent ==
    \A t \in Threads :
        (th[t].pc = "idle" /\ WriteFailed(t))
        => /\ th[t].post = Due(t)
           /\ (th[t].kind = "send" /\ th[t].payload # Unsupported)
              => /\ ~th[t].err
                 /\ th[t].encodedBytes # <<>>
                 /\ decodingStrategy(cfg.strategy, th[t].encodedBytes, NilPayload).e.VcMap
                       = Due(t)

(* a Send whose record could not be written is back with its envelope, on a
   logger that had an earlier event *)
C11_Witness ==
    \E t \in Threads :
        /\ Back(t, "send") /\ WriteFailed(t) /\ th[t].encodedBytes # <<>>
        /\ th[t].post[Own(t)] >= 3

(* C12: LocalEvent returns false only when a sink write failed: it returns
   true when the event is suppressed, when the record is appended to the
   buffer and when the record is written, persistence enabled or not. *)
C12_FalseOnlyOnSinkFailure ==
    \A t \in Threads :
        (Back(t, "local") /\ ~th[t].logSuccess) => WriteFailed(t)

(* C13: monotonicity: no step removes a key of a clock or lowers one of its
   components, whatever the call and whether its encode, decode or write
   fails; and the own component grows in every step that applies a tick. *)
C13_Monotone ==
    [][\A p \in Procs :
          /\ \A k \in DOMAIN currentVC[p] :
                k \in DOMAIN currentVC'[p] /\ currentVC'[p][k] >= currentVC[p][k]
          /\ events'[p] > events[p] => currentVC'[p][p] > currentVC[p][p]]_vars

(* a logger is back from receiving an envelope older than its own clock *)
C13_Witness ==
    \E t \in Threads :
        /\ Back(t, "recv") /\ Recorded(t) /\ th[t].m.from = Own(t)
        /\ th[t].m.S[Own(t)] < th[t].pre[Own(t)]
        /\ th[t].post[Own(t)] = th[t].pre[Own(t)] + 1

(* C14: round trip of the default codec: decoding what EncodeMsgpack wrote
   for an envelope succeeds without error and gives back the same senderID,
   clockSnapshot and payload; the decoder reads what the encoder wrote and
   nothing more. *)
C14_RoundTrip ==
    \A t \in Threads :
        (Back(t, "send") /\ Recorded(t) /\ ~th[t].err /\ cfg.strategy = "msgpack")
        => LET r == DecodeMsgpack(th[t].encodedBytes, NilPayload)
           IN  ~r.err /\ r.e = th[t].d

(* C15: a clock exported by GetCurrentVC is a copy: later ticks and merges
   on the logger do not change the value the caller holds. *)
C15_ExportIsCopy ==
    \A t \in Threads : Back(t, "getvc") => Held(t) = th[t].vc

(* C16: buffered mode defers all writes: while gv.buffered is set no step of
   a logging call changes the sink, and the record of the call is appended
   to the pending buffer; the sink changes only by the whole pending buffer
   being written once, by Flush or DisableBufferedWrites when buffered mode
   was on, after which the buffer is emptied; a Flush of an empty buffer
   adds nothing. *)
C16_BufferedDefers ==
    [][\A t \in Threads :
          th'[t] # th[t]
          => LET p == Own(t) IN
             /\ (th'[t].kind \in LoggingKinds /\ buffered[p]) => sink'[p] = sink[p]
             /\ (th[t].pc = "log_wr" /\ buffered[p])
                => output'[p] = Append(output[p], th[t].rec)
             /\ sink'[p] # sink[p]
                => /\ sink'[p] = sink[p] \o output[p]
                   /\ th[t].pc = "flush_wr"
                   /\ th[t].kind \in {"flush", "disable"} \/ ~buffered[p]
             /\ th[t].pc = "flush_clr" => output'[p] = <<>>
             /\ (th[t].pc = "flush_wr" /\ output[p] = <<>>) => sink'[p] = sink[p]]_vars

(* a logger built buffered is back from a Flush that wrote the init record
   and the record of an event in one write and left the buffer empty *)
C16_Witness ==
    \E t \in Threads :
        /\ Back(t, "flush") /\ th[t].complete
        /\ cfg.buffered /\ buffered[Own(t)]
        /\ Len(sink[Own(t)]) >= 2 /\ sink[Own(t)] = hist[Own(t)].recs
        /\ output[Own(t)] = <<>>

(* the clock vc with the counter of p one up and nothing else changed *)
OwnUp(vc, p) ==
    [k \in DOMAIN vc \cup {p} |-> IF k = p THEN Ticks(vc, p) + 1 ELSE vc[k]]

(* C17: LocalEvent and Send change only the owner's component: a LocalEvent
   or Send that was not suppressed returns with the own counter one above
   its value before the call and every other entry, and the set of keys,
   as before; an entry of another process changes only in a step of a
   Receive. *)
C17_OnlyOwnComponent ==
    /\ [](\A t \in Threads :
            (th[t].pc = "idle" /\ th[t].kind \in {"local", "send"} /\ Recorded(t))
            => th[t].post = OwnUp(th[t].pre, Own(t)))
    /\ [][\A t \in Threads :
             th'[t] # th[t]
             => LET p == Own(t) IN
                /\ (th[t].pc = "idle" /\ th'[t].kind \in {"local", "send"}
                       /\ th'[t].Priority >= cfg.priority)
                   => currentVC'[p] = OwnUp(currentVC[p], p)
                /\ (\E k \in Procs \ {p} : Ticks(currentVC'[p], k) # Ticks(currentVC[p], k))
                   => th'[t].kind = "recv"]_vars

(* a Send is back on a clock that holds a peer's entry, which it left alone *)
C17_Witness ==
    \E t \in Threads :
        /\ Back(t, "send") /\ Recorded(t)
        /\ \E k \in DOMAIN th[t].pre \ {Own(t)} :
              th[t].pre[k] >= 2 /\ th[t].post[k] = th[t].pre[k]
        /\ th[t].post[Own(t)] = th[t].pre[Own(t)] + 1

(* C18: no record is lost, duplicated or reordered: while no sink write
   has failed, whenever no call is in progress on a logger, its sink
   followed by its pending buffer is the sequence of the records of its
   recorded events, in the order in which their calls took the lock. *)
C18_LogIsHistory ==
    \A p \in Procs :
        (/\ ~hist[p].failed
         /\ \A t \in Threads : Proc(t) = p => th[t].pc = "idle")
        => sink[p] \o output[p] = hist[p].recs

(* C19: no process knows more about P than P itself: in every state, the
   P-component of every other process's clock and of the snapshot of every
   envelope in flight is at most P's own counter in P's clock; so a Receive
   that was not suppressed changes the receiver's own component by its +1
   tick and no more. *)
C19_NoOneKnowsMore ==
    /\ \A p \in Procs :
          /\ \A q \in Procs \ {p} : Ticks(currentVC[q], p) <= Ticks(currentVC[p], p)
          /\ \A m \in net : Ticks(m.S, p) <= Ticks(currentVC[p], p)
    /\ \A t \in Threads :
          (Back(t, "recv") /\ Recorded(t))
          => th[t].post[Own(t)] = th[t].pre[Own(t)] + 1

(* a process is back from receiving an envelope whose sender had heard of
   the receiver before: the snapshot holds the receiver's own entry *)
C19_Witness ==
    \E t \in Threads :
        /\ Back(t, "recv") /\ Recorded(t)
        /\ th[t].m.from # Own(t)
        /\ Ticks(th[t].m.S, Own(t)) >= 2
        /\ th[t].post[Own(t)] = th[t].pre[Own(t)] + 1

(* the counter of k in the clock a log record carries, 0 if absent *)
LoggedTicks(rec, k) ==
    IF \E i \in DOMAIN rec.vc : rec.vc[i][1] = k
    THEN (CHOOSE pr \in {rec.vc[i] : i \in DOMAIN rec.vc} : pr[1] = k)[2]
    ELSE 0

(* C20: strict happened-before across a message: when a process Y is back
   from a Receive, not suppressed and decoded without error, of an envelope
   another process X sent with snapshot S, the clock M in the record logged
   for the receive has M[k] >= S[k] for every k and M[Y] > S[Y] (0 when S
   has no entry for Y): M is neither S nor concurrent with S. *)
C20_StrictHappenedBefore ==
    \A t \in Threads :
        (Back(t, "recv") /\ Recorded(t) /\ ~th[t].err /\ th[t].m.from # Own(t))
        => /\ th[t].logged
           /\ \A k \in Procs : LoggedTicks(th[t].rec, k) >= Ticks(th[t].m.S, k)
           /\ LoggedTicks(th[t].rec, Own(t)) > Ticks(th[t].m.S, Own(t))
           /\ th[t].rec.vc = ReturnVCString(th[t].post)

(* Y has sent, X has received that and sent in turn, and Y is back from
   receiving X's envelope, decoded without error: S holds Y's own entry *)
C20_Witness ==
    \E t \in Threads :
        /\ Back(t, "recv") /\ Recorded(t) /\ ~th[t].err /\ th[t].logged
        /\ th[t].m.from \notin {"", Own(t)}
        /\ Own(t) \in DOMAIN th[t].m.S
        /\ th[t].m.S[th[t].m.from] >= 2

=============================================================================
